---- MODULE Spec2Model ----
(***************************************************************************)
(* Model of the s3-provider HTTP gateway (src/main.py): a content-         *)
(* addressed put-if-absent / read-by-key service in front of an object     *)
(* store.  Requests are served by several threads (src/gunicorn.conf.py);  *)
(* each store call (head_object, get_object, put_object) is one atomic     *)
(* step, everything a handler does between two store calls is local and    *)
(* belongs to the step that follows the previous call.                     *)
(***************************************************************************)
EXTENDS Integers, Sequences, FiniteSets, Bags, TLC

\* ------------------------------------------------------------- bounds
\* Number of request threads that can be inside a handler at once.
NumThreads == 2
\* Total number of requests received in one behaviour.
MaxRequests == 3

Threads == 1..NumThreads

\* ------------------------------------------------------------- values
\* Python's Optional: None is the empty set, a present value x is {x}.
None == {}
Some(x) == {x}
Get(o) == CHOOSE x \in o : TRUE

\* Python truthiness of an optional text (a sequence of code points) and of
\* an optional str kept as a TLA+ string.
TruthyText(o) == o # None /\ o # Some(<<>>)
TruthyStr(o) == o # None /\ o # Some("")

\* Texts are sequences of Unicode code points: "aGVsbG8=" and "é".
TextHello == <<97, 71, 86, 115, 98, 71, 56, 61>>
TextEacute == <<233>>
Payloads == {TextHello, TextEacute}
Exts == {"txt"}
Secrets == {None, Some("s3cret")}
Buckets == {None, Some(""), Some("files")}
Headers == {None, Some("s3cret"), Some("wrong")}

\* ------------------------------------------------------------- pure code
\* str.encode("utf-8") on a text without surrogates.
RECURSIVE utf8_encode(_)
utf8_encode(s) ==
    IF s = <<>> THEN <<>>
    ELSE LET c == Head(s)
             b == IF c < 128 THEN <<c>>
                  ELSE IF c < 2048 THEN <<192 + (c \div 64), 128 + (c % 64)>>
                  ELSE IF c < 65536
                       THEN <<224 + (c \div 4096), 128 + ((c \div 64) % 64),
                              128 + (c % 64)>>
                  ELSE <<240 + (c \div 262144), 128 + ((c \div 4096) % 64),
                         128 + ((c \div 64) % 64), 128 + (c % 64)>>
         IN  b \o utf8_encode(Tail(s))

\* bytes.decode("utf-8") on well-formed UTF-8.
RECURSIVE utf8_decode(_)
utf8_decode(b) ==
    IF b = <<>> THEN <<>>
    ELSE LET h == Head(b)
         IN  IF h < 128 THEN <<h>> \o utf8_decode(Tail(b))
             ELSE IF h < 224
                  THEN <<(h - 192) * 64 + (b[2] - 128)>>
                       \o utf8_decode(SubSeq(b, 3, Len(b)))
             ELSE IF h < 240
                  THEN <<(h - 224) * 4096 + (b[2] - 128) * 64 + (b[3] - 128)>>
                       \o utf8_decode(SubSeq(b, 4, Len(b)))
             ELSE <<(h - 240) * 262144 + (b[2] - 128) * 4096
                    + (b[3] - 128) * 64 + (b[4] - 128)>>
                  \o utf8_decode(SubSeq(b, 5, Len(b)))

\* hashlib's SHA-256 hexdigest, tabulated on the byte strings of the model.
hexdigest(bytes) ==
    CASE bytes = <<97, 71, 86, 115, 98, 71, 56, 61>> ->
           "333d6b3a3c1f5db6c9bdda5939b136986d170f4649172a68368d54ecb44c2ff2"
      [] bytes = <<195, 169>> ->
           "4a99557e4033c3539de2eb65472017cad5f9557f7a0625a09f1c3f6e2ba69c4c"
      [] bytes = <<233>> ->
           "de2e331d891ae267a7009cb45b4e8830f170e0c937288ea2731a1941c7a53b0d"
      [] bytes = <<>> ->
           "e3b0c44298fc1c149afbf4c8996fb92427ae41e4649b934ca495991b7852b855"
\* Mutants of hash_string: the digest of the code points instead of the
\* UTF-8 bytes, and the digest taken before the data is fed in.
hash_string_noencode(data) == hexdigest(data)
hash_string_noupdate(data) == hexdigest(<<>>)


hash_string(data) == hexdigest(utf8_encode(data))

\* f"{hash}.{extension}"
s3_file_key(b64_string, extension) == hash_string(b64_string) \o "." \o extension

\* ------------------------------------------------------------- requests
\* The JSON body of a POST as request.json sees it: malformed JSON, the
\* JSON value null, or an object whose two fields may be missing (None).
Body(kind, data_base64, ext) == [kind |-> kind, data_base64 |-> data_base64, ext |-> ext]
Bodies ==
    {Body("malformed", None, None), Body("null", None, None),
     Body("object", None, None),
     Body("object", Some(TextHello), None),
     Body("object", None, Some("txt")),
     Body("object", Some(<<>>), Some("txt")),
     Body("object", Some(TextHello), Some(""))}
    \cup {Body("object", Some(p), Some(e)) : p \in Payloads, e \in Exts}
NoBody == Body("null", None, None)

\* The path segment of GET /get-object/<file_id>; the router never binds an
\* empty segment.
FileIds == {s3_file_key(p, e) : p \in Payloads, e \in Exts} \cup {"doesnotexist.txt"}

GetRequests == [route : {"GET"}, header : Headers, file_id : FileIds, body : {NoBody}]
PostRequests == [route : {"POST"}, header : Headers, file_id : {""}, body : Bodies]
NoRequest == [route |-> "", header |-> None, file_id |-> "", body |-> NoBody]

\* ------------------------------------------------------------- responses
\* kind "json" is a jsonify body, kind "html" is the framework's error page
\* (abort, or an exception that left the view function).
Response(status, kind, error, result, data, content) ==
    [status |-> status, kind |-> kind, error |-> error, result |-> result,
     data |-> data, content |-> content]
NoResponse == Response(0, "", "", "", "", None)
JsonError(status, msg) == Response(status, "json", msg, "", "", None)
HtmlError(status, msg) == Response(status, "html", msg, "", "", None)
JsonStatus(result, k) == Response(200, "json", "", result, k, None)
JsonContent(content) == Response(200, "json", "", "", "", content)

\* str(e) of a botocore ClientError.
ClientErrorMsg(code, op) ==
    "An error occurred (" \o code \o ") when calling the " \o op \o " operation"

\* ------------------------------------------------------------- state
VARIABLES
    file_service_secret_key,  \* os.getenv("SECRET_KEY")
    bucket_name,              \* os.getenv("BUCKET_NAME")
    store,                    \* the bucket: key -> stored bytes
    pc,                       \* per thread: idle, head, get, put
    req,                      \* per thread: the request being served
    key,                      \* per thread: file_id (GET) or s3_file_key (POST)
    calls,                    \* per thread: store calls issued by this request
    obs,                      \* per thread: what this request has seen so far
    last,                     \* the request answered most recently, with its answer
    puts,                     \* every put_object issued so far (a bag)
    started                   \* requests received so far

vars == <<file_service_secret_key, bucket_name, store, pc, req, key, calls,
          obs, last, puts, started>>

EmptyStore == [k \in {} |-> <<>>]
NoCalls == [head |-> 0, get |-> 0, put |-> 0]
\* entered: the view function was entered; absent0: the key was absent when
\* the request was received; seen: the key was answered "created" before the
\* request was received; probe: what its object_exists gave; failed: the store
\* failed one of its calls; wrote: it changed the store.
NoObs == [entered |-> FALSE, absent0 |-> FALSE, seen |-> FALSE, probe |-> "none",
          failed |-> FALSE, wrote |-> FALSE]
NoLast == [req |-> NoRequest, key |-> "", resp |-> NoResponse, calls |-> NoCalls,
           obs |-> NoObs]

\* The put_object calls that were answered "created".
Created == {p \in BagToSet(puts) : ~p.failed}

Init ==
    /\ file_service_secret_key \in Secrets
    /\ bucket_name \in Buckets
    /\ store = EmptyStore
    /\ pc = [t \in Threads |-> "idle"]
    /\ req = [t \in Threads |-> NoRequest]
    /\ key = [t \in Threads |-> ""]
    /\ calls = [t \in Threads |-> NoCalls]
    /\ obs = [t \in Threads |-> NoObs]
    /\ last = NoLast
    /\ puts = EmptyBag
    /\ started = 0

\* ------------------------------------------------------------- the store
\* What a store call answers: ok, or a ClientError with its code.  fail is
\* the environment's choice of a transport or service failure.
Ok == [ok |-> TRUE, code |-> ""]
Err(code) == [ok |-> FALSE, code |-> code]
head_object(k, fail) ==
    IF fail THEN Err("503") ELSE IF k \in DOMAIN store THEN Ok ELSE Err("404")
get_object(k, fail) ==
    IF fail THEN Err("503") ELSE IF k \in DOMAIN store THEN Ok ELSE Err("NoSuchKey")
put_object(k, body) ==
    [x \in DOMAIN store \cup {k} |-> IF x = k THEN body ELSE store[x]]
\* Mutant of object_exists: the 404 branch answers True.
object_exists_swallow(r) ==
    IF r.ok THEN "true" ELSE IF r.code = "404" THEN "true" ELSE "raise"

\* ------------------------------------------------------------- helpers
\* object_exists: True, False, or the ClientError re-raised.
object_exists(r) ==
    IF r.ok THEN "true" ELSE IF r.code = "404" THEN "false" ELSE "raise"
\* Mutant of get_object_content: the body decoded as latin-1.
get_object_content_latin1(k, r) ==
    IF r.ok THEN [raise |-> FALSE, content |-> Some(store[k])]
    ELSE IF r.code = "404" THEN [raise |-> FALSE, content |-> None]
    ELSE [raise |-> TRUE, content |-> None]

\* get_object_content: the decoded body, None on a 404 code, or re-raise.
get_object_content(k, r) ==
    IF r.ok THEN [raise |-> FALSE, content |-> Some(utf8_decode(store[k]))]
    ELSE IF r.code = "404" THEN [raise |-> FALSE, content |-> None]
    ELSE [raise |-> TRUE, content |-> None]

\* requires_secret_key lets the request through to the view function.
secret_key_ok(header) == ~(header # file_service_secret_key)

\* The snapshot taken when a request for key k reaches its first store call.
Received(k) ==
    [NoObs EXCEPT !.entered = TRUE, !.absent0 = k \notin DOMAIN store,
                  !.seen = (k \in {p.key : p \in Created})]

\* Thread t takes request r, for key k, up to its first store call.
Begin(t, r, k) ==
    /\ pc' = [pc EXCEPT ![t] = "head"]
    /\ req' = [req EXCEPT ![t] = r]
    /\ key' = [key EXCEPT ![t] = k]
    /\ obs' = [obs EXCEPT ![t] = Received(k)]
    /\ UNCHANGED <<calls, last>>

\* Thread t sends the response: the answered request is recorded and the
\* thread is free again.
Finish(t, r, k, a, c, o) ==
    /\ last' = [req |-> r, key |-> k, resp |-> a, calls |-> c, obs |-> o]
    /\ pc' = [pc EXCEPT ![t] = "idle"]
    /\ req' = [req EXCEPT ![t] = NoRequest]
    /\ key' = [key EXCEPT ![t] = ""]
    /\ calls' = [calls EXCEPT ![t] = NoCalls]
    /\ obs' = [obs EXCEPT ![t] = NoObs]

\* Thread t goes on to its next store call.
Goto(t, label, c, o) ==
    /\ pc' = [pc EXCEPT ![t] = label]
    /\ calls' = [calls EXCEPT ![t] = c]
    /\ obs' = [obs EXCEPT ![t] = o]
    /\ UNCHANGED <<req, key, last>>

\* A handler's local prefix either answers at once or goes on to a store call.
Answer(r, entered) == [done |-> TRUE, resp |-> r, entered |-> entered]
GoOn == [done |-> FALSE, resp |-> NoResponse, entered |-> TRUE]
\* Mutant of get_request_entry: the BUCKET_NAME check is missing.
get_request_entry_nobucket(r) ==
    IF ~secret_key_ok(r.header)
    THEN Answer(JsonError(403, "Invalid secret key"), FALSE)
    ELSE IF r.file_id = ""
    THEN Answer(HtmlError(400, "file_id required"), TRUE)
    ELSE GoOn

\* ------------------------------------------------------------- GET
\* requires_secret_key and get_request up to the call of object_exists.
get_request_entry(r) ==
    IF ~secret_key_ok(r.header)
    THEN Answer(JsonError(403, "Invalid secret key"), FALSE)
    ELSE IF r.file_id = ""
    THEN Answer(HtmlError(400, "file_id required"), TRUE)
    ELSE IF ~TruthyStr(bucket_name)
    THEN Answer(HtmlError(500, "RuntimeError: BUCKET_NAME is not set"), TRUE)
    ELSE GoOn

\* get_request after object_exists returned or raised.
get_request_probed(e) ==
    CASE e = "true" -> GoOn
      [] e = "false" -> Answer(HtmlError(404, "object not found"), TRUE)
      [] e = "raise" ->
           Answer(HtmlError(500, "ClientError: " \o ClientErrorMsg("503", "HeadObject")),
                  TRUE)

\* get_request after get_object_content returned or raised.
get_request_fetched(c) ==
    IF c.raise
    THEN HtmlError(500, "ClientError: " \o ClientErrorMsg("503", "GetObject"))
    ELSE JsonContent(c.content)

GetReceive(t) ==
    /\ pc[t] = "idle"
    /\ started < MaxRequests
    /\ \E r \in GetRequests :
         LET a == get_request_entry(r) IN
         IF a.done
         THEN Finish(t, r, r.file_id, a.resp, NoCalls,
                     [NoObs EXCEPT !.entered = a.entered])
         ELSE Begin(t, r, r.file_id)
    /\ started' = started + 1
    /\ UNCHANGED <<file_service_secret_key, bucket_name, store, puts>>

GetHead(t) ==
    /\ pc[t] = "head"
    /\ req[t].route = "GET"
    /\ \E fail \in BOOLEAN :
         LET e == object_exists(head_object(key[t], fail))
             a == get_request_probed(e)
             c == [calls[t] EXCEPT !.head = @ + 1]
             o == [obs[t] EXCEPT !.probe = e, !.failed = fail]
         IN  IF a.done
             THEN Finish(t, req[t], key[t], a.resp, c, o)
             ELSE Goto(t, "get", c, o)
    /\ UNCHANGED <<file_service_secret_key, bucket_name, store, puts, started>>

GetObject(t) ==
    /\ pc[t] = "get"
    /\ \E fail \in BOOLEAN :
         LET g == get_object_content(key[t], get_object(key[t], fail)) IN
         Finish(t, req[t], key[t], get_request_fetched(g),
                [calls[t] EXCEPT !.get = @ + 1],
                [obs[t] EXCEPT !.failed = fail])
    /\ UNCHANGED <<file_service_secret_key, bucket_name, store, puts, started>>

\* ------------------------------------------------------------- POST
\* request.json: raises BadRequest on malformed JSON, else the parsed value;
\* a JSON object is falsy when it has no keys.
json_raises(body) == body.kind = "malformed"
json_truthy(body) ==
    body.kind = "object" /\ ~(body.data_base64 = None /\ body.ext = None)

\* if not b64_string or not extension
fields_missing(body) == ~TruthyText(body.data_base64) \/ ~TruthyStr(body.ext)

\* requires_secret_key and post_request up to the call of object_exists; the
\* handler's except clause turns every exception into a 500 JSON answer.
post_request_entry(r) ==
    IF ~secret_key_ok(r.header)
    THEN Answer(JsonError(403, "Invalid secret key"), FALSE)
    ELSE IF json_raises(r.body)
    THEN Answer(JsonError(500, "400 Bad Request: Failed to decode JSON object"), TRUE)
    ELSE IF ~json_truthy(r.body)
    THEN Answer(JsonError(400, "No JSON data provided"), TRUE)
    ELSE IF fields_missing(r.body)
    THEN Answer(JsonError(400, "Missing required fields"), TRUE)
    ELSE IF ~TruthyStr(bucket_name)
    THEN Answer(JsonError(500, "BUCKET_NAME is not set"), TRUE)
    ELSE GoOn
\* Mutant of post_request_probed: the put is issued whatever the probe says.
post_request_probed_ungated(e, k) ==
    CASE e = "false" -> GoOn
      [] e = "true" -> GoOn
      [] e = "raise" -> Answer(JsonError(500, ClientErrorMsg("503", "HeadObject")), TRUE)

\* post_request after object_exists returned or raised.
post_request_probed(e, k) ==
    CASE e = "false" -> GoOn
      [] e = "true" -> Answer(JsonStatus("exists", k), TRUE)
      [] e = "raise" -> Answer(JsonError(500, ClientErrorMsg("503", "HeadObject")), TRUE)
\* Mutant of put_body: the text is stored without being encoded.
put_body_raw(b64_string) == b64_string

\* Body=b64_string.encode("utf-8")
put_body(b64_string) == utf8_encode(b64_string)

\* post_request after put_object returned or raised.
post_request_put(fail, k) ==
    IF fail THEN JsonError(500, ClientErrorMsg("503", "PutObject"))
    ELSE JsonStatus("created", k)

PostReceive(t) ==
    /\ pc[t] = "idle"
    /\ started < MaxRequests
    /\ \E r \in PostRequests :
         LET a == post_request_entry(r) IN
         IF a.done
         THEN Finish(t, r, "", a.resp, NoCalls, [NoObs EXCEPT !.entered = a.entered])
         ELSE Begin(t, r, s3_file_key(Get(r.body.data_base64), Get(r.body.ext)))
    /\ started' = started + 1
    /\ UNCHANGED <<file_service_secret_key, bucket_name, store, puts>>

PostHead(t) ==
    /\ pc[t] = "head"
    /\ req[t].route = "POST"
    /\ \E fail \in BOOLEAN :
         LET e == object_exists(head_object(key[t], fail))
             a == post_request_probed(e, key[t])
             c == [calls[t] EXCEPT !.head = @ + 1]
             o == [obs[t] EXCEPT !.probe = e, !.failed = fail]
         IN  IF a.done
             THEN Finish(t, req[t], key[t], a.resp, c, o)
             ELSE Goto(t, "put", c, o)
    /\ UNCHANGED <<file_service_secret_key, bucket_name, store, puts, started>>

\* s3.put_object: it stores the body and returns, or it raises; a put that
\* raises may or may not have reached the bucket.
PostPut(t) ==
    /\ pc[t] = "put"
    /\ \E fail \in BOOLEAN, applied \in BOOLEAN :
         LET b64_string == Get(req[t].body.data_base64)
             body == put_body(b64_string)
         IN  /\ fail \/ applied
             /\ store' = IF applied THEN put_object(key[t], body) ELSE store
             /\ puts' = puts (+) SetToBag({[payload |-> b64_string,
                                            ext |-> Get(req[t].body.ext),
                                            key |-> key[t], body |-> body,
                                            failed |-> fail]})
             /\ Finish(t, req[t], key[t], post_request_put(fail, key[t]),
                       [calls[t] EXCEPT !.put = @ + 1],
                       [obs[t] EXCEPT !.failed = fail, !.wrote = (store' # store)])
    /\ UNCHANGED <<file_service_secret_key, bucket_name, started>>

Next ==
    \E t \in Threads :
        \/ GetReceive(t)
        \/ GetHead(t)
        \/ GetObject(t)
        \/ PostReceive(t)
        \/ PostHead(t)
        \/ PostPut(t)

Spec == Init /\ [][Next]_vars

\* One request at a time: a request is received only when no other is in
\* progress.
Quiet == \A u \in Threads : pc[u] = "idle"
NextSeq ==
    \E t \in Threads :
        \/ Quiet /\ GetReceive(t)
        \/ GetHead(t)
        \/ GetObject(t)
        \/ Quiet /\ PostReceive(t)
        \/ PostHead(t)
        \/ PostPut(t)

SeqSpec == Init /\ [][NextSeq]_vars

\* ------------------------------------------------------------- properties
\* A request has been answered, and last describes it.
Answered == last.resp.status # 0
\* The access gate let the request through.
Admitted == last.req.header = file_service_secret_key
\* The key header is present and carries the configured secret.
Authorised == last.req.header # None /\ Admitted
\* The body is a JSON object with a non-empty payload and a non-empty ext.
WellFormed ==
    /\ last.req.body.kind = "object"
    /\ last.req.body.data_base64 \in {Some(p) : p \in Payloads}
    /\ last.req.body.ext \in {Some(e) : e \in Exts}
\* hex(sha256(payload)) + "." + ext and the UTF-8 bytes of the payload, written
\* out for the payloads of the model.
SpecKey(p, e) ==
    IF p = TextHello
    THEN "333d6b3a3c1f5db6c9bdda5939b136986d170f4649172a68368d54ecb44c2ff2." \o e
    ELSE "4a99557e4033c3539de2eb65472017cad5f9557f7a0625a09f1c3f6e2ba69c4c." \o e
SpecBytes(p) ==
    IF p = TextHello THEN <<97, 71, 86, 115, 98, 71, 56, 61>> ELSE <<195, 169>>
Holds(k, p) == k \in DOMAIN store /\ store[k] = SpecBytes(p)

\* C1: with one request at a time and no store failure, an authorised
\* well-formed POST answers 200 with the key hex(sha256(payload)) + "." + ext;
\* it answers "created" when that key was absent when it was received and
\* "exists" when an earlier POST was answered "created" for it, and afterwards
\* the store holds the payload under the key.
C1_CreatedThenExists ==
    (Answered /\ last.req.route = "POST" /\ Authorised /\ WellFormed
       /\ TruthyStr(bucket_name) /\ ~last.obs.failed)
    => LET p == Get(last.req.body.data_base64)
           e == Get(last.req.body.ext)
       IN  /\ last.resp.status = 200
           /\ last.resp.kind = "json"
           /\ last.resp.data = SpecKey(p, e)
           /\ last.obs.absent0 => last.resp.result = "created"
           /\ last.obs.seen => last.resp.result = "exists"
           /\ Holds(SpecKey(p, e), p)

\* The second of two sequential identical POSTs has been answered "exists".
C1_Witness ==
    /\ Answered /\ last.req.route = "POST" /\ Authorised /\ ~last.obs.failed
    /\ last.obs.seen
    /\ last.resp.result = "exists"

\* C2: an authorised GET of a key that a POST was answered "created" for
\* before the GET was received answers, when the store does not fail, 200
\* with the payload that was posted.
C2_RoundTrip ==
    (Answered /\ last.req.route = "GET" /\ Authorised /\ last.obs.seen
       /\ ~last.obs.failed)
    => /\ last.resp.status = 200
       /\ last.resp.kind = "json"
       /\ \E c \in Created : c.key = last.req.file_id
       /\ \A c \in Created :
            c.key = last.req.file_id => last.resp.content = Some(c.payload)

\* A GET has returned a posted payload that is not plain ASCII.
C2_Witness ==
    /\ Answered /\ last.req.route = "GET" /\ last.obs.seen /\ ~last.obs.failed
    /\ last.resp.content = Some(TextEacute)

\* C3 as stated: a request whose key header is missing or differs from the
\* configured secret is answered 403 without entering the view function and
\* without any store call.
C3_Forbidden ==
    (Answered /\ (last.req.header = None \/ last.req.header # file_service_secret_key))
    => /\ last.resp.status = 403
       /\ ~last.obs.entered
       /\ last.calls = NoCalls

\* C4: an authorised GET of a key that is absent from the store answers, when
\* the bucket is configured and the probe does not fail, 404 after one
\* head_object and nothing else, and it writes nothing.
C4_NotFound ==
    (Answered /\ last.req.route = "GET" /\ Authorised /\ TruthyStr(bucket_name)
       /\ last.req.file_id \notin DOMAIN store /\ ~last.obs.failed)
    => /\ last.resp.status = 404
       /\ last.calls = [head |-> 1, get |-> 0, put |-> 0]
       /\ ~last.obs.wrote

\* A GET of a key nobody posted has been answered.
C4_Witness ==
    /\ Answered /\ last.req.route = "GET" /\ Authorised
    /\ last.req.file_id = "doesnotexist.txt"
    /\ last.obs.probe = "false"
    /\ last.resp.status = 404

\* C5 as stated: an authorised request during which the store failed is answered 500 with
\* a JSON body {"error": message}, after at most one call of each kind.
C5_StoreFailure ==
    (Answered /\ Authorised /\ last.obs.failed)
    => /\ last.resp.status = 500
       /\ last.resp.kind = "json"
       /\ last.resp.error # ""
       /\ last.calls.head <= 1 /\ last.calls.get <= 1 /\ last.calls.put <= 1

\* C6 as stated: an authorised POST whose body does not supply both fields
\* non-empty is answered 400 without any store call.
C6_BadRequest ==
    (Answered /\ last.req.route = "POST" /\ Authorised /\ ~WellFormed)
    => /\ last.resp.status = 400
       /\ last.calls = NoCalls

\* C7: stored objects are immutable: a key the store holds is held with the
\* same bytes after every step.
C7_Immutable ==
    [][\A k \in DOMAIN store : k \in DOMAIN store' /\ store'[k] = store[k]]_vars

\* A put_object was issued for a key that an earlier put_object had written.
C7_Witness ==
    \E a \in BagToSet(puts), b \in BagToSet(puts) :
        /\ a.key = b.key
        /\ a.key \in DOMAIN store
        /\ (a # b \/ CopiesIn(a, puts) >= 2)

\* C8: however POSTs interleave, every put_object for one payload and ext
\* carries the same key and the same bytes, an authorised well-formed POST
\* that meets no store failure answers "created" or "exists" with that key,
\* and the store holds exactly the payload under every key it answered
\* "created" or "exists" for.
C8_BenignRace ==
    /\ \A a \in BagToSet(puts) :
         /\ a.key = SpecKey(a.payload, a.ext)
         /\ a.body = SpecBytes(a.payload)
         /\ ~a.failed => Holds(a.key, a.payload)
    /\ (Answered /\ last.req.route = "POST" /\ Authorised /\ WellFormed
          /\ TruthyStr(bucket_name) /\ ~last.obs.failed)
       => LET p == Get(last.req.body.data_base64)
              e == Get(last.req.body.ext)
          IN  /\ last.resp.result \in {"created", "exists"}
              /\ last.resp.data = SpecKey(p, e)
              /\ Holds(SpecKey(p, e), p)

\* Two POSTs of one payload both saw the key absent and were both answered
\* "created".
C8_Witness ==
    \E a \in Created : CopiesIn(a, puts) = 2 /\ Holds(a.key, a.payload)

\* C9: the store changes only in the put_object step of a POST whose own
\* probe reported the key absent; a POST whose probe reported it present
\* issues no put and answers "exists"; a GET, and a request answered 400, 403
\* or 404, issues no put and writes nothing.
C9_StepFrame ==
    [][store' # store
         => \E t \in Threads :
              /\ pc[t] = "put" /\ pc'[t] = "idle"
              /\ req[t].route = "POST"
              /\ obs[t].probe = "false"
              /\ calls[t] = [head |-> 1, get |-> 0, put |-> 0]
              /\ store' = put_object(key[t], SpecBytes(Get(req[t].body.data_base64)))]_vars
C9_AnswerFrame ==
    Answered =>
      /\ (last.req.route = "POST" /\ last.obs.probe = "true")
           => (last.calls.put = 0 /\ last.resp.result = "exists" /\ ~last.obs.wrote)
      /\ (last.req.route = "GET" \/ last.resp.status \in {400, 403, 404})
           => (last.calls.put = 0 /\ ~last.obs.wrote)
      /\ last.obs.wrote => (last.req.route = "POST" /\ last.obs.probe = "false")
C9_OnlyGatedPutWrites == C9_StepFrame /\ []C9_AnswerFrame

\* A POST found its key present and answered "exists" after a put had written it.
C9_Witness ==
    /\ Answered /\ last.req.route = "POST" /\ last.obs.probe = "true"
    /\ last.resp.result = "exists"
    /\ last.key \in {a.key : a \in BagToSet(puts)}

\* C10 as stated: with BUCKET_NAME unset no authorised protected request is
\* answered 200, 400 or 404 (the failure comes before field validation can
\* answer) and no store call is issued.
C10_FailsFirst ==
    (~TruthyStr(bucket_name) /\ Answered /\ Authorised)
    => /\ last.resp.status \notin {200, 400, 404}
       /\ last.calls = NoCalls

\* C10 amended: with BUCKET_NAME unset no store call is ever issued and no
\* request is answered 200 or 404; the check comes after authentication and
\* after the validation of a POST body, so a request the access gate rejects
\* is answered 403, an admitted POST with an unusable body 400 or 500, and
\* every other admitted request 500 with "BUCKET_NAME is not set".
C10_FailsAtUse ==
    ~TruthyStr(bucket_name)
    => /\ \A t \in Threads : pc[t] = "idle"
       /\ store = EmptyStore
       /\ Answered =>
            /\ last.calls = NoCalls
            /\ last.resp.status \in {400, 403, 500}
            /\ ~Admitted => last.resp.status = 403
            /\ last.resp.status = 400
                 => (last.req.route = "POST" /\ Admitted /\ ~WellFormed)
            /\ (Admitted /\ (last.req.route = "GET" \/ WellFormed))
                 => /\ last.resp.status = 500
                    /\ last.resp.error \in {"BUCKET_NAME is not set",
                                            "RuntimeError: BUCKET_NAME is not set"}

\* With BUCKET_NAME unset an authorised well-formed POST was answered 500.
C10_Witness ==
    /\ ~TruthyStr(bucket_name)
    /\ Answered /\ last.req.route = "POST" /\ Authorised /\ WellFormed
    /\ last.resp.status = 500

====
